---- MODULE Spec2Model ----
(***************************************************************************)
(* Model of the token ledger program of src/src/lib.rs: the Token record   *)
(* codec (impl Pack for Token), the instruction dispatcher                  *)
(* (process_instruction) and the two handlers mint_tokens and              *)
(* transfer_tokens, acting on the account buffers the runtime hands in.    *)
(*                                                                         *)
(* Buffers are byte sequences of their real width (72-byte layout, 64-byte *)
(* declared LEN).  A u64 is kept at its full width as four 16-bit limbs,   *)
(* least significant first, because TLC's integers are narrower than 64     *)
(* bits; from_le_bytes / to_le_bytes convert between the 8 bytes   *)
(* of the wire format and the limbs.                                       *)
(*                                                                         *)
(* The provided methods of trait Pack (unpack, unpack_unchecked, pack) are *)
(* those of solana_program::program_pack, which the impl at lib.rs:30-54   *)
(* inherits: each compares the slice length with Self::LEN and returns     *)
(* InvalidAccountData when they differ, before calling the impl's          *)
(* unpack_from_slice / pack_into_slice.                                    *)
(*                                                                         *)
(* A Rust panic (slice index out of range, arithmetic overflow with        *)
(* overflow checks on) aborts the program; it is the result "Panic",       *)
(* which is not an error value returned to the caller.                     *)
(*                                                                         *)
(* Three specifications: Spec runs the entrypoint on buffers of 64 and 72  *)
(* bytes owned by this or another program; SpecLong runs it on buffers of  *)
(* 72 and 80 bytes with balances up to 2^64 - 1; SpecCodec applies         *)
(* Token::pack, Token::unpack and Token::unpack_unchecked to buffers of    *)
(* every length from 0 to MaxBufLen.                                       *)
(***************************************************************************)
EXTENDS Integers, Sequences, FiniteSets, TLC

VARIABLES
    data,      \* account id -> the account's data buffer (a byte sequence)
    owner,     \* account id -> the program that owns the account
    pre,       \* the buffers as they were when the last instruction began
    call,      \* the last instruction: its account list and payload
    result,    \* what the last call of process_instruction produced
    read,      \* the accounts whose buffer the last call borrowed
    mints,     \* account id -> the mints that succeeded on it (0, 1, 2 = more)
    codec      \* the codec tried on its own: the buffer and the last call

vars == <<data, owner, pre, call, result, read, mints, codec>>

----------------------------------------------------------------------------
(* u64 at full width: four 16-bit limbs, least significant first *)

U64Zero == <<0, 0, 0, 0>>

U64Max == <<65535, 65535, 65535, 65535>>

\* the u64 of a small literal (below 2^31)
U64Of(n) == <<n % 65536, n \div 65536, 0, 0>>

\* u64::from_le_bytes on an 8-byte slice
from_le_bytes(b) == [i \in 1..4 |-> b[2 * i - 1] + 256 * b[2 * i]]

\* u64::to_le_bytes
to_le_bytes(v) ==
    [j \in 1..8 |-> IF j % 2 = 1 THEN v[(j + 1) \div 2] % 256
                                 ELSE v[j \div 2] \div 256]

\* a < b on u64
U64Lt(a, b) ==
    LET d == {i \in 1..4 : a[i] # b[i]}
    IN  /\ d # {}
        /\ LET m == CHOOSE i \in d : \A j \in d : j <= i
           IN  a[m] < b[m]

\* a - b modulo 2^64, and whether it borrowed out of the top limb
U64Sub(a, b) ==
    LET borrow[i \in 0..4] ==
            IF i = 0 THEN 0
            ELSE IF a[i] - b[i] - borrow[i - 1] < 0 THEN 1 ELSE 0
    IN  [val |-> [i \in 1..4 |-> (a[i] - b[i] - borrow[i - 1] + 65536) % 65536],
         overflow |-> borrow[4] = 1]

\* a + b modulo 2^64, and whether it carried out of the top limb
U64Add(a, b) ==
    LET carry[i \in 0..4] ==
            IF i = 0 THEN 0
            ELSE (a[i] + b[i] + carry[i - 1]) \div 65536
    IN  [val |-> [i \in 1..4 |-> (a[i] + b[i] + carry[i - 1]) % 65536],
         overflow |-> carry[4] = 1]

----------------------------------------------------------------------------
(* accounts and identifiers *)

\* the accounts of the model: 1 and 2 hold records, 3 is a wallet
Accounts == {1, 2, 3}

\* Pubkey of an account: 32 bytes
Pubkey(id) == [j \in 1..32 |-> id]

ZeroKey == [j \in 1..32 |-> 0]

ThisProgram == "token_program"

OtherProgram == "system_program"

Programs == {ThisProgram, OtherProgram}

\* struct Token
Token(mint, own, amount) == [mint |-> mint, owner |-> own, amount |-> amount]

\* Token::default()
DefaultToken == Token(ZeroKey, ZeroKey, U64Zero)

\* IsInitialized for Token
is_initialized(t) == U64Lt(U64Zero, t.amount)

----------------------------------------------------------------------------
(* the codec: impl Pack for Token *)

\* the bytes the three fields occupy, 8 + 32 + 32: the end of the last
\* range sliced by unpack_from_slice and pack_into_slice
LAYOUT == 72

\* LEN as the length of the layout (a variant of LEN the claims are tried on)
LEN_AsLayout == LAYOUT

\* const LEN of impl Pack for Token
LEN == 64

Ok(v) == [res |-> "Ok", val |-> v]

Err(e) == [res |-> e, val |-> DefaultToken]

\* src[lo..hi] of Rust: bytes lo+1 .. hi
Slice(s, lo, hi) == SubSeq(s, lo + 1, hi)

\* dst[off .. off+len].copy_from_slice(bytes)
CopyFromSlice(dst, off, bytes) ==
    [i \in 1..Len(dst) |->
        IF off < i /\ i <= off + Len(bytes) THEN bytes[i - off] ELSE dst[i]]

\* Token::unpack_from_slice: each slicing panics when the range leaves src
unpack_from_slice(src) ==
    IF Len(src) < 8 THEN Err("Panic")
    ELSE IF Len(src) < 40 THEN Err("Panic")
    ELSE IF Len(src) < LAYOUT THEN Err("Panic")
    ELSE Ok(Token(Slice(src, 8, 40), Slice(src, 40, 72),
                  from_le_bytes(Slice(src, 0, 8))))

\* Token::pack_into_slice: the three copies in order; a copy whose range
\* leaves dst panics after the copies before it were made
pack_into_slice(t, dst) ==
    IF Len(dst) < 8 THEN [res |-> "Panic", data |-> dst]
    ELSE LET d1 == CopyFromSlice(dst, 0, to_le_bytes(t.amount))
         IN  IF Len(dst) < 40 THEN [res |-> "Panic", data |-> d1]
             ELSE LET d2 == CopyFromSlice(d1, 8, t.mint)
                  IN  IF Len(dst) < LAYOUT THEN [res |-> "Panic", data |-> d2]
                      ELSE [res |-> "Ok",
                            data |-> CopyFromSlice(d2, 40, t.owner)]

\* the length check taken as a lower bound, so that a record may lie at the
\* front of a longer buffer (a variant of unpack_unchecked the claims are
\* tried on)
unpack_unchecked_AtLeast(input) ==
    IF Len(input) < LEN THEN Err("InvalidAccountData")
    ELSE unpack_from_slice(input)

\* Pack::unpack_unchecked
unpack_unchecked(input) ==
    IF Len(input) # LEN THEN Err("InvalidAccountData")
    ELSE unpack_from_slice(input)

\* Pack::unpack
unpack(input) ==
    LET value == unpack_unchecked(input)
    IN  IF value.res # "Ok" THEN value
        ELSE IF is_initialized(value.val) THEN value
        ELSE Err("UninitializedAccount")

\* Pack::pack
pack(src, dst) ==
    IF Len(dst) # LEN THEN [res |-> "InvalidAccountData", data |-> dst]
    ELSE pack_into_slice(src, dst)

----------------------------------------------------------------------------
(* the handlers; each returns the result, the buffers as it leaves them    *)
(* and the set of accounts whose buffer it borrowed                        *)

Out(res, dat, rd) == [res |-> res, data |-> dat, read |-> rd]

\* AccountInfo: the account's key and signer flag; its owner and data are
\* the entries of the owner and data maps under that key
AccountInfo(id, signer) == [key |-> id, is_signer |-> signer]

\* the record written into the buffer before the owner check and the
\* decoding (a variant of mint_tokens the claims are tried on)
mint_tokens_WriteFirst(program_id, accounts, amount, own, dat) ==
    IF Len(accounts) < 2 THEN Out("NotEnoughAccountKeys", dat, {})
    ELSE
    LET mint_account == accounts[1]
        token_account == accounts[2].key
        filled == Token(Pubkey(mint_account.key),
                        Pubkey(mint_account.key), amount)
        p == pack_into_slice(filled, dat[token_account])
        written == [dat EXCEPT ![token_account] = p.data]
    IN  IF p.res # "Ok" THEN Out(p.res, written, {token_account})
        ELSE IF own[token_account] # program_id
        THEN Out("IncorrectProgramId", written, {token_account})
        ELSE
        LET token_data == unpack_unchecked(dat[token_account])
        IN  IF token_data.res # "Ok"
            THEN Out(token_data.res, written, {token_account})
            ELSE IF ~is_initialized(token_data.val)
            THEN Out("Ok", written, {token_account})
            ELSE Out("AccountAlreadyInitialized", written, {token_account})

\* the buffer decoded before the owner check (a variant of mint_tokens the
\* claims are tried on)
mint_tokens_DecodeFirst(program_id, accounts, amount, own, dat) ==
    IF Len(accounts) < 2 THEN Out("NotEnoughAccountKeys", dat, {})
    ELSE
    LET mint_account == accounts[1]
        token_account == accounts[2].key
        token_data == unpack_unchecked(dat[token_account])
    IN  IF token_data.res # "Ok"
        THEN Out(token_data.res, dat, {token_account})
        ELSE IF is_initialized(token_data.val)
        THEN Out("AccountAlreadyInitialized", dat, {token_account})
        ELSE IF own[token_account] # program_id
        THEN Out("IncorrectProgramId", dat, {token_account})
        ELSE
        LET filled == Token(Pubkey(mint_account.key),
                            Pubkey(mint_account.key), amount)
            p == pack(filled, dat[token_account])
        IN  Out(p.res, [dat EXCEPT ![token_account] = p.data],
                {token_account})

\* fn mint_tokens
mint_tokens(program_id, accounts, amount, own, dat) ==
    IF Len(accounts) < 2 THEN Out("NotEnoughAccountKeys", dat, {})
    ELSE
    LET mint_account == accounts[1]
        token_account == accounts[2].key
    IN  IF own[token_account] # program_id
        THEN Out("IncorrectProgramId", dat, {})
        ELSE
        LET token_data == unpack_unchecked(dat[token_account])
        IN  IF token_data.res # "Ok"
            THEN Out(token_data.res, dat, {token_account})
            ELSE IF ~is_initialized(token_data.val)
            THEN LET filled == Token(Pubkey(mint_account.key),
                                     Pubkey(mint_account.key), amount)
                     p == pack(filled, dat[token_account])
                 IN  Out(p.res, [dat EXCEPT ![token_account] = p.data],
                         {token_account})
            ELSE Out("AccountAlreadyInitialized", dat, {token_account})

\* the signer check left out (a variant of authority_signed the claims are
\* tried on)
authority_signed_Unchecked(authority_account) == TRUE

\* the condition of the signer check of transfer_tokens
authority_signed(authority_account) == authority_account.is_signer

\* fn transfer_tokens; overflow_checks is the build's choice of what an
\* overflowing += or -= does: panic (on) or wrap (off)
transfer_tokens(program_id, accounts, amount, dat, overflow_checks) ==
    IF Len(accounts) < 3 THEN Out("NotEnoughAccountKeys", dat, {})
    ELSE
    LET source_account == accounts[1].key
        destination_account == accounts[2].key
        authority_account == accounts[3]
    IN  IF ~authority_signed(authority_account)
        THEN Out("MissingRequiredSignature", dat, {})
        ELSE
        LET source_data == unpack(dat[source_account])
        IN  IF source_data.res # "Ok"
            THEN Out(source_data.res, dat, {source_account})
            ELSE
            LET destination_data == unpack_unchecked(dat[destination_account])
                both == {source_account, destination_account}
            IN  IF destination_data.res # "Ok"
                THEN Out(destination_data.res, dat, both)
                ELSE IF U64Lt(source_data.val.amount, amount)
                THEN Out("InsufficientFunds", dat, both)
                ELSE
                LET debit == U64Sub(source_data.val.amount, amount)
                    credit == U64Add(destination_data.val.amount, amount)
                IN  IF overflow_checks /\ (debit.overflow \/ credit.overflow)
                    THEN Out("Panic", dat, both)
                    ELSE
                    LET p1 == pack([source_data.val EXCEPT !.amount = debit.val],
                                   dat[source_account])
                        d1 == [dat EXCEPT ![source_account] = p1.data]
                    IN  IF p1.res # "Ok" THEN Out(p1.res, d1, both)
                        ELSE
                        LET p2 == pack([destination_data.val
                                            EXCEPT !.amount = credit.val],
                                       d1[destination_account])
                        IN  Out(p2.res,
                                [d1 EXCEPT ![destination_account] = p2.data],
                                both)

\* the arms of the match with the default arm taken by 2 alone (a variant
\* of match_instruction the claims are tried on)
match_instruction_Only2(instruction) ==
    IF instruction = 0 THEN "mint"
    ELSE IF instruction = 2 THEN "invalid"
    ELSE "transfer"

\* the arm the match on the opcode takes
match_instruction(instruction) ==
    IF instruction = 0 THEN "mint"
    ELSE IF instruction = 1 THEN "transfer"
    ELSE "invalid"

\* fn process_instruction; checks is the build's overflow_checks
process_instruction(program_id, accounts, instruction_data, own, dat, checks) ==
    IF Len(instruction_data) < 1 THEN Out("Panic", dat, {})
    ELSE
    LET arm == match_instruction(instruction_data[1])
    IN  IF arm = "mint"
        THEN IF Len(instruction_data) < 9 THEN Out("Panic", dat, {})
             ELSE mint_tokens(program_id, accounts,
                              from_le_bytes(Slice(instruction_data, 1, 9)),
                              own, dat)
        ELSE IF arm = "transfer"
        THEN IF Len(instruction_data) < 9 THEN Out("Panic", dat, {})
             ELSE transfer_tokens(program_id, accounts,
                                  from_le_bytes(Slice(instruction_data, 1, 9)),
                                  dat, checks)
        ELSE Out("InvalidInstructionData", dat, {})

----------------------------------------------------------------------------
(* the inputs the runtime may hand in, from bounded sets *)

\* the longest account list of an instruction
MaxAccounts == 3

\* the bytes an instruction payload may carry after its 9th byte
MaxTrailing == 1

\* the balances a buffer may start with
Balances == {U64Zero, U64Of(1000)}

\* the amounts an instruction may name
Amounts == {U64Zero, U64Of(300), U64Of(1000), U64Of(1001)}

\* the first payload bytes tried
Opcodes == {0, 1, 2, 255}

\* the lengths of the record buffers: the declared LEN and the layout
BufLens == {64, 72}

\* the 72 bytes of a record in the layout of pack_into_slice
RecordImage(t) == to_le_bytes(t.amount) \o t.mint \o t.owner

\* a buffer of n bytes holding (the first n bytes of) a record, zero after it
Buffer(t, n) ==
    [i \in 1..n |-> IF i <= LAYOUT THEN RecordImage(t)[i] ELSE 0]

\* a record of the given balance: the default record, or one wallet 3 holds
RecordOf(b) == IF b = U64Zero THEN DefaultToken
               ELSE Token(Pubkey(3), Pubkey(3), b)

Buffers == {Buffer(RecordOf(b), n) : b \in Balances, n \in BufLens}

\* the account lists tried: account 1 first, account 1 or 2 second, the
\* wallet from the third place on, cut to every length up to MaxAccounts
AccountLists ==
    {l \in UNION {[1..n -> Accounts] : n \in 0..MaxAccounts} :
        \A i \in 1..Len(l) : /\ i = 1 => l[i] = 1
                             /\ i = 2 => l[i] \in {1, 2}
                             /\ i >= 3 => l[i] = 3}

\* the accounts that signed the transaction: the wallet or nobody
SignerSets(accts) == SUBSET ({3} \cap {accts[i] : i \in 1..Len(accts)})

\* opcode and amount
Payload(op, a) == <<op>> \o to_le_bytes(a)

\* the lengths a payload of the opcode is cut to
CutLens(op) == IF op \in {0, 1} THEN {0, 1, 8} \cup (9..(9 + MaxTrailing))
               ELSE {1, 9}

\* the payloads tried: every amount for mint and transfer, and for every
\* opcode the payload of amount 300 with trailing bytes, cut to each length
Payloads ==
    {Payload(op, a) : op \in {0, 1}, a \in Amounts}
    \cup UNION {{SubSeq(Payload(op, U64Of(300)) \o [i \in 1..MaxTrailing |-> 7],
                        1, n) : n \in CutLens(op)} : op \in Opcodes}

NoCall == [accounts |-> <<>>, instruction_data |-> <<>>]

\* the codec on a buffer, before any call of it: op is the last call, src
\* the record last handed to pack, res and val what the last call returned,
\* before the buffer as that call found it, prev the call before it
CodecOn(buf) ==
    [buf |-> buf, op |-> "none", prev |-> "none", src |-> DefaultToken,
     res |-> "None", val |-> DefaultToken, before |-> buf]

NoCodec == CodecOn(<<>>)

----------------------------------------------------------------------------
(* the state machine: the runtime invokes the entrypoint once per          *)
(* instruction on the buffers as the last instruction left them            *)

Init ==
    /\ data \in [Accounts -> Buffers \cup {<<>>}]
    /\ data[3] = <<>>
    /\ \A a \in {1, 2} : data[a] # <<>>
    /\ owner \in [Accounts -> Programs]
    /\ owner[3] = OtherProgram
    /\ pre = data
    /\ call = NoCall
    /\ result = "None"
    /\ read = {}
    /\ mints = [a \in Accounts |-> 0]
    /\ codec = NoCodec

\* entrypoint!(process_instruction): one invocation by the runtime, in a
\* build with overflow checks off or on
Invoke(accts, signers, instruction_data) ==
    LET accounts == [i \in 1..Len(accts) |->
                        AccountInfo(accts[i], accts[i] \in signers)]
        run(overflow_checks) ==
            process_instruction(ThisProgram, accounts, instruction_data,
                                owner, data, overflow_checks)
    IN  \E r \in {run(FALSE), run(TRUE)} :
            /\ data' = r.data
            /\ result' = r.res
            /\ read' = r.read
            /\ pre' = data
            /\ call' = [accounts |-> accounts,
                        instruction_data |-> instruction_data]
            /\ mints' = IF /\ r.res = "Ok"
                             /\ Len(instruction_data) >= 1
                             /\ instruction_data[1] = 0
                          THEN [mints EXCEPT ![accts[2]] =
                                    IF @ < 2 THEN @ + 1 ELSE @]
                          ELSE mints
            /\ UNCHANGED <<owner, codec>>

MintInstruction ==
    \E accts \in AccountLists, p \in Payloads :
        \E signers \in SignerSets(accts) :
            /\ Len(p) >= 1 /\ p[1] = 0
            /\ Invoke(accts, signers, p)

TransferInstruction ==
    \E accts \in AccountLists, p \in Payloads :
        \E signers \in SignerSets(accts) :
            /\ Len(p) >= 1 /\ p[1] = 1
            /\ Invoke(accts, signers, p)

OtherInstruction ==
    \E accts \in AccountLists, p \in Payloads :
        \E signers \in SignerSets(accts) :
            /\ Len(p) >= 1 /\ p[1] \notin {0, 1}
            /\ Invoke(accts, signers, p)

EmptyInstruction ==
    \E accts \in AccountLists :
        \E signers \in SignerSets(accts) :
            Invoke(accts, signers, <<>>)

Next ==
    \/ MintInstruction
    \/ TransferInstruction
    \/ OtherInstruction
    \/ EmptyInstruction

Spec == Init /\ [][Next]_vars

----------------------------------------------------------------------------
(* the same entrypoint on accounts of this program whose buffers have the  *)
(* record layout or are longer, with balances up to the largest u64; the   *)
(* record of account a names a as its mint and its owner, so that the two  *)
(* records differ in both and the wallet owns neither                      *)

LongBalances == {U64Zero, U64Of(1000), U64Max}

LongLens == {LAYOUT, LAYOUT + 8}

RecordAt(a, b) == IF b = U64Zero THEN DefaultToken
                  ELSE Token(Pubkey(a), Pubkey(a), b)

LongBuffers(a) == {Buffer(RecordAt(a, b), n) : b \in LongBalances, n \in LongLens}

InitLong ==
    /\ data \in [Accounts -> UNION {LongBuffers(a) : a \in {1, 2}} \cup {<<>>}]
    /\ data[3] = <<>>
    /\ \A a \in {1, 2} : data[a] \in LongBuffers(a)
    /\ owner = [a \in Accounts |-> IF a = 3 THEN OtherProgram ELSE ThisProgram]
    /\ pre = data
    /\ call = NoCall
    /\ result = "None"
    /\ read = {}
    /\ mints = [a \in Accounts |-> 0]
    /\ codec = NoCodec

SpecLong == InitLong /\ [][Next]_vars

----------------------------------------------------------------------------
(* the codec on its own: Token::pack, Token::unpack_unchecked and          *)
(* Token::unpack applied to buffers of every length up to MaxBufLen        *)

\* the longest buffer the codec is tried on
MaxBufLen == 80

\* the records handed to pack, and held by the buffers at the start
Records ==
    {DefaultToken,
     Token(Pubkey(1), Pubkey(3), U64Of(1000)),
     Token(Pubkey(3), Pubkey(1), U64Max)}

CodecBuffers == {Buffer(t, n) : t \in Records, n \in 0..MaxBufLen}

InitCodec ==
    /\ data = [a \in Accounts |-> <<>>]
    /\ owner = [a \in Accounts |-> OtherProgram]
    /\ pre = data
    /\ call = NoCall
    /\ result = "None"
    /\ read = {}
    /\ mints = [a \in Accounts |-> 0]
    /\ codec \in {CodecOn(b) : b \in CodecBuffers}

\* the codec's calls leave the accounts and the last instruction alone
CodecOnly == UNCHANGED <<data, owner, pre, call, result, read, mints>>

\* Token::pack(src, &mut buf)
PackCall ==
    /\ \E t \in Records :
          LET p == pack(t, codec.buf)
          IN  codec' = [buf |-> p.data, op |-> "pack", prev |-> codec.op,
                        src |-> t, res |-> p.res, val |-> DefaultToken,
                        before |-> codec.buf]
    /\ CodecOnly

\* Token::unpack_unchecked(&buf)
UnpackUncheckedCall ==
    /\ LET u == unpack_unchecked(codec.buf)
       IN  codec' = [codec EXCEPT !.op = "unpack_unchecked",
                                  !.prev = codec.op,
                                  !.res = u.res, !.val = u.val,
                                  !.before = codec.buf]
    /\ CodecOnly

\* Token::unpack(&buf)
UnpackCall ==
    /\ LET u == unpack(codec.buf)
       IN  codec' = [codec EXCEPT !.op = "unpack", !.prev = codec.op,
                                  !.res = u.res, !.val = u.val,
                                  !.before = codec.buf]
    /\ CodecOnly

NextCodec ==
    \/ PackCall
    \/ UnpackUncheckedCall
    \/ UnpackCall

SpecCodec == InitCodec /\ [][NextCodec]_vars

----------------------------------------------------------------------------
(* what the claims speak of: the last instruction and the records that the *)
(* buffers hold in the 72-byte layout (amount at bytes 0..8, mint_id at    *)
(* 8..40, owner_id at 40..72)                                              *)

InstructionData == call.instruction_data

NumAccounts == Len(call.accounts)

\* the key of the i-th account of the last instruction
Key(i) == call.accounts[i].key

\* the last instruction was a mint / a transfer carrying its amount
IsMint == Len(InstructionData) >= 9 /\ InstructionData[1] = 0

IsTransfer == Len(InstructionData) >= 9 /\ InstructionData[1] = 1

\* the amount the last instruction named
Requested == from_le_bytes(Slice(InstructionData, 1, 9))

\* the amount field of a buffer (zero when the buffer has no such field)
AmountOf(buf) ==
    IF Len(buf) >= 8 THEN from_le_bytes(Slice(buf, 0, 8)) ELSE U64Zero

\* a buffer holds an initialized record
Initialized(buf) == U64Lt(U64Zero, AmountOf(buf))

\* a buffer of the full record layout
HoldsRecord(buf) == Len(buf) = LAYOUT

\* the all-zero buffer of the record layout
ZeroBuffer == Buffer(DefaultToken, LAYOUT)

\* the last instruction was a transfer with three accounts, signed by the third
SignedTransfer ==
    /\ IsTransfer
    /\ NumAccounts >= 3
    /\ call.accounts[3].is_signer

\* C2: a transfer of d from a source record of balance A to another record
\* of balance B, d <= A, leaves A-d and B+d in the buffers; transfer(300)
\* from 1000 to 0 with a signer present gives 700 and 300.
C2_TransferEffect ==
    /\ (SignedTransfer /\ result = "Ok" /\ Key(1) # Key(2))
          => /\ AmountOf(data[Key(1)])
                   = U64Sub(AmountOf(pre[Key(1)]), Requested).val
             /\ AmountOf(data[Key(2)])
                   = U64Add(AmountOf(pre[Key(2)]), Requested).val
    /\ (/\ SignedTransfer
        /\ Key(1) # Key(2)
        /\ Requested = U64Of(300)
        /\ pre[Key(1)] = Buffer(RecordOf(U64Of(1000)), LAYOUT)
        /\ pre[Key(2)] = ZeroBuffer)
          => /\ result = "Ok"
             /\ AmountOf(data[Key(1)]) = U64Of(700)
             /\ AmountOf(data[Key(2)]) = U64Of(300)

\* C3: a mint on a token account owned by this program whose buffer is the
\* all-zero buffer of the record layout succeeds for any amount and leaves
\* a record with that amount and mint_id = owner_id = the first account's key.
C3_MintInitializes ==
    (/\ IsMint
     /\ NumAccounts >= 2
     /\ owner[Key(2)] = ThisProgram
     /\ pre[Key(2)] = ZeroBuffer)
       => /\ result = "Ok"
          /\ data[Key(2)] =
                Buffer(Token(Pubkey(Key(1)), Pubkey(Key(1)), Requested), LAYOUT)

\* C4: a mint on a token account owned by this program whose record is
\* already initialized returns AccountAlreadyInitialized and leaves the
\* buffer unchanged.
C4_MintTwiceRejected ==
    (/\ IsMint
     /\ NumAccounts >= 2
     /\ owner[Key(2)] = ThisProgram
     /\ HoldsRecord(pre[Key(2)])
     /\ Initialized(pre[Key(2)]))
       => /\ result = "AccountAlreadyInitialized"
          /\ data[Key(2)] = pre[Key(2)]

C7_SignatureGate ==
    (/\ IsTransfer
     /\ NumAccounts >= 3
     /\ ~call.accounts[3].is_signer)
       => /\ result = "MissingRequiredSignature"
          /\ read = {}
          /\ data = pre

\* an unsigned transfer of 1001 between two 64-byte buffers, whose decoding
\* would abort, was turned down for the missing signature
C7_Witness ==
    /\ IsTransfer
    /\ NumAccounts >= 3
    /\ ~call.accounts[3].is_signer
    /\ Requested = U64Of(1001)
    /\ Len(pre[Key(1)]) = LEN
    /\ Len(pre[Key(2)]) = LEN
    /\ result = "MissingRequiredSignature"

\* C8: a signed transfer whose amount exceeds the balance of an initialized
\* source record returns InsufficientFunds and leaves both buffers unchanged.
C8_InsufficientFunds ==
    (/\ SignedTransfer
     /\ HoldsRecord(pre[Key(1)])
     /\ HoldsRecord(pre[Key(2)])
     /\ Initialized(pre[Key(1)])
     /\ U64Lt(AmountOf(pre[Key(1)]), Requested))
       => /\ result = "InsufficientFunds"
          /\ data[Key(1)] = pre[Key(1)]
          /\ data[Key(2)] = pre[Key(2)]

\* C9: any first payload byte other than 0 and 1 returns
\* InvalidInstructionData whatever the rest of the payload and the account
\* list, with no handler run: no buffer borrowed or modified.
C9_UnknownOpcode ==
    (/\ Len(InstructionData) >= 1
     /\ InstructionData[1] \notin {0, 1})
       => /\ result = "InvalidInstructionData"
          /\ read = {}
          /\ data = pre

\* opcode 255 with a full payload and a signed three-account list was
\* turned down as an invalid instruction
C9_Witness ==
    /\ Len(InstructionData) >= 9
    /\ InstructionData[1] = 255
    /\ NumAccounts >= 3
    /\ call.accounts[3].is_signer
    /\ result = "InvalidInstructionData"

\* C10: for opcode 0 or 1 a payload of fewer than 9 bytes makes the call
\* return the error value InvalidInstructionData, with no buffer modified.
C10_ShortPayload ==
    (/\ Len(InstructionData) \in 1..8
     /\ InstructionData[1] \in {0, 1})
       => /\ result = "InvalidInstructionData"
          /\ data = pre

\* C11: whenever a mint or a transfer instruction does not return Ok (an
\* error value, or an abort), every account buffer is byte for byte what it
\* was before the instruction: a buffer differs only after a success.
C11_FailureAtomicity ==
    /\ ((IsMint \/ IsTransfer) /\ result # "Ok") => data = pre
    /\ (data # pre) => result = "Ok"

\* a signed transfer got as far as borrowing and decoding its source
\* buffer, returned an error value, and left the buffers as they were
C11_Witness ==
    /\ SignedTransfer
    /\ read = {Key(1)}
    /\ result = "InvalidAccountData"
    /\ data = pre

C13_RoundTrip ==
    /\ (codec.op = "pack" /\ Len(codec.before) = LAYOUT)
          => /\ codec.res = "Ok"
             /\ codec.buf = RecordImage(codec.src)
    /\ (/\ codec.op = "unpack_unchecked"
        /\ codec.prev = "pack"
        /\ Len(codec.buf) = LAYOUT)
          => /\ codec.res = "Ok"
             /\ codec.val = codec.src

\* C14: packing into or unpacking from a buffer shorter than 72 bytes
\* returns the error value InvalidAccountData, never aborts, and leaves the
\* buffer unchanged.
C14_ShortBuffer ==
    (codec.op # "none" /\ Len(codec.before) < LAYOUT)
       => /\ codec.res = "InvalidAccountData"
          /\ codec.buf = codec.before

\* C16: the checks come in the order of the source and the first one that
\* fails decides the result. Transfer: fewer than three accounts gives
\* NotEnoughAccountKeys; else an unsigned authority gives
\* MissingRequiredSignature before any buffer is borrowed, whatever the
\* source holds and however large the amount; else a source that does not
\* decode as an initialized record gives the decoding's result with the
\* destination not yet borrowed. Mint: a token account owned by another
\* program gives IncorrectProgramId before its buffer is borrowed, also when
\* the buffer holds an initialized record.
C16_PreconditionOrder ==
    /\ (IsTransfer /\ NumAccounts < 3)
          => (result = "NotEnoughAccountKeys" /\ read = {})
    /\ (IsTransfer /\ NumAccounts >= 3 /\ ~call.accounts[3].is_signer)
          => (result = "MissingRequiredSignature" /\ read = {})
    /\ (SignedTransfer /\ unpack(pre[Key(1)]).res # "Ok")
          => (result = unpack(pre[Key(1)]).res /\ read = {Key(1)})
    /\ (IsMint /\ NumAccounts < 2)
          => (result = "NotEnoughAccountKeys" /\ read = {})
    /\ (IsMint /\ NumAccounts >= 2 /\ owner[Key(2)] # ThisProgram)
          => (result = "IncorrectProgramId" /\ read = {})

\* a mint on a token account that another program owns and whose buffer
\* holds an initialized record of the layout returned IncorrectProgramId
C16_Witness ==
    /\ IsMint
    /\ NumAccounts >= 2
    /\ owner[Key(2)] = OtherProgram
    /\ HoldsRecord(pre[Key(2)])
    /\ Initialized(pre[Key(2)])
    /\ result = "IncorrectProgramId"

\* C15 as the specification has it: a record may lie at the front of a
\* longer buffer. A mint on a token account of this program whose buffer is
\* longer than 72 bytes and holds no initialized record succeeds, and a
\* signed transfer within the balance between two distinct buffers of 72
\* bytes or more, the source initialized, succeeds; both leave every byte
\* from offset 72 on unchanged.
C15_PrefixRecord ==
    /\ (/\ IsMint
        /\ NumAccounts >= 2
        /\ owner[Key(2)] = ThisProgram
        /\ Len(pre[Key(2)]) > LAYOUT
        /\ ~Initialized(pre[Key(2)]))
          => /\ result = "Ok"
             /\ AmountOf(data[Key(2)]) = Requested
             /\ Slice(data[Key(2)], LAYOUT, Len(data[Key(2)]))
                   = Slice(pre[Key(2)], LAYOUT, Len(pre[Key(2)]))
    /\ (/\ SignedTransfer
        /\ Key(1) # Key(2)
        /\ Len(pre[Key(1)]) >= LAYOUT
        /\ Len(pre[Key(2)]) >= LAYOUT
        /\ Initialized(pre[Key(1)])
        /\ ~U64Lt(AmountOf(pre[Key(1)]), Requested)
        /\ ~U64Add(AmountOf(pre[Key(2)]), Requested).overflow)
          => /\ result = "Ok"
             /\ \A a \in {Key(1), Key(2)} :
                   Slice(data[a], LAYOUT, Len(data[a]))
                       = Slice(pre[a], LAYOUT, Len(pre[a]))

\* C15 amended: a record cannot lie at the front of a longer buffer. A mint
\* on a token account of this program whose buffer is longer than 72 bytes,
\* and a signed transfer whose source buffer is longer than 72 bytes, or
\* whose destination buffer is while the source has 72 bytes or more,
\* return InvalidAccountData and leave every byte of every buffer unchanged.
C15_ExactLength ==
    /\ (/\ IsMint
        /\ NumAccounts >= 2
        /\ owner[Key(2)] = ThisProgram
        /\ Len(pre[Key(2)]) > LAYOUT)
          => (result = "InvalidAccountData" /\ data = pre)
    /\ (/\ SignedTransfer
        /\ \/ Len(pre[Key(1)]) > LAYOUT
           \/ Len(pre[Key(1)]) >= LAYOUT /\ Len(pre[Key(2)]) > LAYOUT)
          => (result = "InvalidAccountData" /\ data = pre)

\* a mint of 300 on a token account of this program whose buffer is 80 zero
\* bytes returned InvalidAccountData
C15_Witness ==
    /\ IsMint
    /\ NumAccounts >= 2
    /\ owner[Key(2)] = ThisProgram
    /\ Len(pre[Key(2)]) = LAYOUT + 8
    /\ ~Initialized(pre[Key(2)])
    /\ Requested = U64Of(300)
    /\ result = "InvalidAccountData"

C18_AuthorityIndependence ==
    /\ SignedTransfer =>
          \A k \in Accounts, o \in Accounts :
              LET others == [call.accounts EXCEPT ![3] = AccountInfo(k, TRUE)]
                  source == pre[Key(1)]
                  renamed == IF Len(source) >= LAYOUT
                             THEN CopyFromSlice(source, 40, Pubkey(o))
                             ELSE source
                  before == [pre EXCEPT ![Key(1)] = renamed]
              IN  \E c \in BOOLEAN :
                     LET r == process_instruction(ThisProgram, others,
                                  InstructionData, owner, before, c)
                     IN  /\ r.res = result
                         /\ \A a \in Accounts :
                               AmountOf(r.data[a]) = AmountOf(data[a])
    /\ (/\ SignedTransfer
        /\ Key(1) # Key(2)
        /\ HoldsRecord(pre[Key(1)])
        /\ HoldsRecord(pre[Key(2)])
        /\ Initialized(pre[Key(1)])
        /\ Slice(pre[Key(1)], 40, LAYOUT) # Pubkey(Key(3))
        /\ ~U64Lt(AmountOf(pre[Key(1)]), Requested)
        /\ ~U64Add(AmountOf(pre[Key(2)]), Requested).overflow)
          => /\ result = "Ok"
             /\ AmountOf(data[Key(1)])
                   = U64Sub(AmountOf(pre[Key(1)]), Requested).val

\* C19: a mint does not depend on the signer flag of its first account: with
\* the flag the other way round the same mint returns the same result and
\* leaves the same buffers; and so a caller that has not signed initializes
\* a record: its mint on a token account of this program holding the
\* all-zero buffer of the layout succeeds and names the first account's key
\* as mint_id and owner_id.
C19_MintIgnoresSigner ==
    /\ (IsMint /\ NumAccounts >= 1) =>
          LET first == call.accounts[1]
              flipped == [call.accounts EXCEPT
                            ![1] = AccountInfo(first.key, ~first.is_signer)]
              r == process_instruction(ThisProgram, flipped, InstructionData,
                                       owner, pre, FALSE)
          IN  r.res = result /\ r.data = data
    /\ (/\ IsMint
        /\ NumAccounts >= 2
        /\ ~call.accounts[1].is_signer
        /\ owner[Key(2)] = ThisProgram
        /\ pre[Key(2)] = ZeroBuffer)
          => /\ result = "Ok"
             /\ Slice(data[Key(2)], 8, 40) = Pubkey(Key(1))
             /\ Slice(data[Key(2)], 40, LAYOUT) = Pubkey(Key(1))

\* C20: a successful transfer changes nothing but the amount fields of its
\* source and destination: their mint_id and owner_id bytes and every other
\* buffer stay as they were; a successful mint changes only the buffer of
\* its token account; and a signed transfer within the balance between two
\* initialized records of the layout whose mint_id differ succeeds.
C20_Frame ==
    /\ (SignedTransfer /\ result = "Ok")
          => /\ \A a \in {Key(1), Key(2)} :
                   Slice(data[a], 8, Len(data[a]))
                       = Slice(pre[a], 8, Len(pre[a]))
             /\ \A a \in Accounts \ {Key(1), Key(2)} : data[a] = pre[a]
    /\ (IsMint /\ NumAccounts >= 2 /\ result = "Ok")
          => \A a \in Accounts \ {Key(2)} : data[a] = pre[a]
    /\ (/\ SignedTransfer
        /\ Key(1) # Key(2)
        /\ HoldsRecord(pre[Key(1)])
        /\ HoldsRecord(pre[Key(2)])
        /\ Initialized(pre[Key(1)])
        /\ Initialized(pre[Key(2)])
        /\ Slice(pre[Key(1)], 8, 40) # Slice(pre[Key(2)], 8, 40)
        /\ ~U64Lt(AmountOf(pre[Key(1)]), Requested)
        /\ ~U64Add(AmountOf(pre[Key(2)]), Requested).overflow)
          => result = "Ok"

====
